---- MODULE Spec2Model ----
(***************************************************************************)
(* Model of app.py: the devotional Q&A service.  A dataset of records is   *)
(* loaded once at import time; POST /ask tokenizes the question, scans the *)
(* dataset for the record with the highest keyword score and formats the   *)
(* answer.  Text is modelled as a sequence of characters, a character as a *)
(* one-character string, so that lowercasing, stripping, tokenizing,       *)
(* substring counting and formatting are computed as the code computes     *)
(* them.                                                                   *)
(***************************************************************************)
EXTENDS Integers, Sequences, FiniteSets, TLC

\* Longest dataset the loader is given.
MaxRecords == 2
\* Number of requests the threaded server handles at the same time.
NumRequests == 2

Requests == 1..NumRequests

(***************************************************************************)
(* Characters and strings                                                  *)
(***************************************************************************)
\* U+2013 EN DASH, the one non-ASCII character of the answer template.
EnDash == "U+2013"

Fields == {"book", "chapter", "verse", "translation", "purport", "author"}

UpperChars == {"A", "B"}
LowerChars == {"a", "b", "c"}
DigitChars == {"2", "4", "7"}
SpaceChars == {" ", "\n"}

\* r"\w": letters, digits and the underscore.
IsWordChar(c) == c \in UpperChars \cup LowerChars \cup DigitChars \cup {"_"}

\* str.lower(), one character.
LowerChar(c) == CASE c = "A" -> "a" [] c = "B" -> "b" [] OTHER -> c

\* str.lower()
Lower(s) == [i \in 1..Len(s) |-> LowerChar(s[i])]

RECURSIVE LStrip(_)
LStrip(s) == IF s # <<>> /\ Head(s) \in SpaceChars THEN LStrip(Tail(s)) ELSE s

RECURSIVE RStrip(_)
RStrip(s) ==
  IF s # <<>> /\ s[Len(s)] \in SpaceChars THEN RStrip(SubSeq(s, 1, Len(s) - 1)) ELSE s

\* str.strip()
Strip(s) == RStrip(LStrip(s))

\* re.findall(r"\w+", s) from position i on, cur being the run collected so far.
RECURSIVE FindWordsFrom(_, _, _)
FindWordsFrom(s, i, cur) ==
  IF i > Len(s)
    THEN (IF cur = <<>> THEN <<>> ELSE <<cur>>)
    ELSE IF IsWordChar(s[i])
      THEN FindWordsFrom(s, i + 1, Append(cur, s[i]))
      ELSE (IF cur = <<>> THEN <<>> ELSE <<cur>>) \o FindWordsFrom(s, i + 1, <<>>)

\* A tokenizer that also yields the empty runs between words (r"\w*").
FindAllEmptyRuns(s) == FindWordsFrom(s, 1, <<>>) \o << <<>> >>

\* words = re.findall(r"\w+", query.lower())
FindAll(s) == FindWordsFrom(s, 1, <<>>)

\* str.count(word) from position i on: occurrences found left to right, the
\* search resuming after the end of each occurrence.
RECURSIVE CountFrom(_, _, _)
CountFrom(text, word, i) ==
  IF i + Len(word) - 1 > Len(text)
    THEN 0
    ELSE IF SubSeq(text, i, i + Len(word) - 1) = word
      THEN 1 + CountFrom(text, word, i + Len(word))
      ELSE CountFrom(text, word, i + 1)

\* text.count(word); the empty word is found at every position and at the end.
Count(text, word) ==
  IF word = <<>> THEN Len(text) + 1 ELSE CountFrom(text, word, 1)

(***************************************************************************)
(* Records                                                                 *)
(***************************************************************************)
\* rec.get(field, '')
Get(rec, field) == IF field \in DOMAIN rec THEN rec[field] ELSE <<>>

\* The two fields joined with nothing between them.
ComparisonTextNoSpace(rec) ==
  Lower(Get(rec, "translation") \o Get(rec, "purport"))

\* text = f"{rec.get('translation', '')} {rec.get('purport', '')}".lower()
ComparisonText(rec) ==
  Lower(Get(rec, "translation") \o <<" ">> \o Get(rec, "purport"))

RECURSIVE SumCounts(_, _)
SumCounts(text, ws) ==
  IF ws = <<>> THEN 0 ELSE Count(text, Head(ws)) + SumCounts(text, Tail(ws))

\* The distinct words of ws, each once, in order of first appearance.
RECURSIVE Dedup(_)
Dedup(ws) ==
  IF ws = <<>> THEN <<>>
  ELSE LET d == Dedup(SubSeq(ws, 1, Len(ws) - 1))
           w == ws[Len(ws)]
       IN  IF \E i \in 1..Len(d) : d[i] = w THEN d ELSE Append(d, w)

\* A score that counts every distinct query word once.
ScoreDistinctWords(rec, ws) == SumCounts(ComparisonText(rec), Dedup(ws))

\* score = sum(text.count(word) for word in words)
Score(rec, ws) == SumCounts(ComparisonText(rec), ws)

\* A holder replaced by any record that scores above 0.
ReplacesAnyPositive(s, best) == s > 0

\* A holder replaced on a score greater than or equal to the best.
ReplacesOnTie(s, best) == s >= best

\* if score > best_score
Replaces(s, best) == s > best

\* `if record`: None is false, and so is a dict without keys.  A record is
\* held by reference: its position in DATA, 0 for None.
Truthy(data, ref) == ref # 0 /\ DOMAIN data[ref] # {}

\* record[...] raises KeyError for a key the dict lacks.
HasAllKeys(rec) == Fields \subseteq DOMAIN rec

BlankLine == <<"\n", "\n">>
ChapterSep == <<",", " ", "C", "h", "a", "p", "t", "e", "r", " ">>
VerseSep == <<",", " ", "V", "e", "r", "s", "e", " ">>
Benediction ==
  <<"C", "h", "a", "n", "t", " ", "H", "a", "r", "e", " ", "K", "r", "i", "s",
    "h", "n", "a", " ", "a", "n", "d", " ", "b", "e", " ", "h", "a", "p", "p",
    "y", ".">>

\* The f-string of the match branch.
FormatAnswer(rec) ==
  rec["translation"] \o BlankLine \o
  rec["purport"] \o BlankLine \o
  <<"(">> \o rec["book"] \o ChapterSep \o rec["chapter"] \o VerseSep \o
    rec["verse"] \o <<")", " ">> \o
  <<EnDash, " ">> \o rec["author"] \o <<".", " ">> \o
  Benediction

\* The literal of the else branch.
Apology ==
  <<"T", "h", "i", "s", " ", "i", "n", "f", "o", "r", "m", "a", "t", "i", "o",
    "n", " ", "i", "s", " ", "n", "o", "t", " ", "a", "v", "a", "i", "l", "a",
    "b", "l", "e", " ", "i", "n", " ", "t", "h", "e", " ", "p", "r", "o", "v",
    "i", "d", "e", "d", " ", "t", "e", "x", "t", "s", ".", " ", "C", "h", "a",
    "n", "t", " ", "H", "a", "r", "e", " ", "K", "r", "i", "s", "h", "n", "a",
    " ", "a", "n", "d", " ", "b", "e", " ", "h", "a", "p", "p", "y", ".">>

(***************************************************************************)
(* Inputs: dataset files and request bodies                                *)
(***************************************************************************)
Book == <<"B", "G">>
Chapter == <<"2">>
Verse == <<"4", "7">>
Author == <<"A", "c">>

\* A record that has all six fields.
FullRecord(t, p) ==
  [book |-> Book, chapter |-> Chapter, verse |-> Verse,
   translation |-> t, purport |-> p, author |-> Author]

\* The record without any key, {}.
EmptyRecord == [f \in {} |-> <<>>]

RecA == FullRecord(<<"a">>, <<"a">>)
RecAAA == FullRecord(<<"a", "A", "a">>, <<>>)
RecAAASwapped == FullRecord(<<>>, <<"a", "A", "a">>)
RecBAB == FullRecord(<<"b", " ", "a", "?">>, <<"B">>)
RecOnlyTranslation == [translation |-> <<"a", "b">>]
RecNoTranslation ==
  [book |-> Book, chapter |-> Chapter, verse |-> Verse,
   purport |-> <<"b", "a">>, author |-> Author]
RecNoText == [book |-> Book, chapter |-> Chapter, verse |-> Verse, author |-> Author]

RecordPool ==
  {RecA, RecAAA, RecAAASwapped, RecBAB, RecOnlyTranslation, RecNoTranslation,
   RecNoText, EmptyRecord}

SeqsUpTo(S, n) == UNION {[1..k -> S] : k \in 0..n}

MissingFile == [exists |-> FALSE, content |-> <<>>]
FileOf(records) == [exists |-> TRUE, content |-> records]

\* data.json as the serial server finds it.
Files == {MissingFile} \cup {FileOf(d) : d \in SeqsUpTo(RecordPool, MaxRecords)}

\* data.json as the threaded server finds it.
ConcFiles ==
  {MissingFile, FileOf(<<RecA, RecAAA>>), FileOf(<<RecBAB, RecA>>),
   FileOf(<<RecAAA, RecBAB>>), FileOf(<<RecOnlyTranslation, RecBAB>>)}

Questions ==
  { <<>>, <<" ">>, <<"?">>, <<"a">>, <<" ", "A", " ">>, <<"a", "a">>,
    <<"a", " ", "a">>, <<"a", "?", "a">>, <<"b">>, <<"a", " ", "b">>,
    <<"c">>, <<"a", "b">>, <<"b", " ", "B">> }

ConcQuestions ==
  { <<"?">>, <<"a">>, <<"a", " ", "a">>, <<"a", " ", "A", "?", "a">>, <<"a", "a">>,
    <<"b", " ", "a">>, <<"a", " ", "b", " ", "b", " ", "a">> }

\* A request body.  kind: no body, a body that is not JSON, or the type of
\* the JSON value; size: the number, or the length of the string, array or
\* object; qkind, q: the type and text of an object's "question" entry.
BodyOf(kind, size, qkind, q) == [kind |-> kind, size |-> size, qkind |-> qkind, q |-> q]

QuestionBody(q) == BodyOf("object", 1, "string", q)

MalformedBodies ==
  { BodyOf("absent", 0, "absent", <<>>), BodyOf("invalid", 0, "absent", <<>>),
    BodyOf("null", 0, "absent", <<>>), BodyOf("false", 0, "absent", <<>>),
    BodyOf("true", 1, "absent", <<>>),
    BodyOf("number", 0, "absent", <<>>), BodyOf("number", 5, "absent", <<>>),
    BodyOf("string", 0, "absent", <<>>), BodyOf("string", 1, "absent", <<>>),
    BodyOf("array", 0, "absent", <<>>), BodyOf("array", 1, "absent", <<>>),
    BodyOf("object", 0, "absent", <<>>), BodyOf("object", 1, "absent", <<>>),
    BodyOf("object", 1, "number", <<>>), BodyOf("object", 1, "null", <<>>) }

Bodies == MalformedBodies \cup {QuestionBody(q) : q \in Questions}

ConcBodies ==
  {BodyOf("array", 1, "absent", <<>>)} \cup {QuestionBody(q) : q \in ConcQuestions}

(***************************************************************************)
(* Request parsing                                                         *)
(***************************************************************************)
\* request.get_json(silent=True) is None: no JSON body, or one that fails to parse.
IsNoJson(b) == b.kind \in {"absent", "invalid"}

\* The value left of `or` is false: None, null, false, 0, "", [] and {}.
IsFalsy(b) == IsNoJson(b) \/ b.kind \in {"null", "false"} \/ b.size = 0

\* data = request.get_json(silent=True) or {} is a dict, so data.get exists.
DataIsDict(b) == IsFalsy(b) \/ b.kind = "object"

\* data.get("question", "") is a str, so .strip() exists.
QuestionIsStr(b) == IsFalsy(b) \/ b.qkind \in {"absent", "string"}

\* data.get("question", "")
RawQuestion(b) == IF ~IsFalsy(b) /\ b.qkind = "string" THEN b.q ELSE <<>>

\* Lines 85-86 raise AttributeError.
ParseFails(b) == ~DataIsDict(b) \/ ~QuestionIsStr(b)

\* The except branch yields a dataset of one record.
LoadDataDefaultRecord(f) == IF f.exists THEN f.content ELSE <<RecA>>

\* try: DATA = json.load(f)  except FileNotFoundError: DATA = []
LoadData(f) == IF f.exists THEN f.content ELSE <<>>

(***************************************************************************)
(* The handler run from start to end                                       *)
(***************************************************************************)
\* The loop of search_passage from record i on; the result is the holder.
RECURSIVE ScanFrom(_, _, _, _, _)
ScanFrom(data, ws, i, holder, best) ==
  IF i > Len(data)
    THEN holder
    ELSE LET s == Score(data[i], ws)
         IN  IF Replaces(s, best)
               THEN ScanFrom(data, ws, i + 1, i, s)
               ELSE ScanFrom(data, ws, i + 1, holder, best)

\* search_passage(query) over data: a position in data, or 0 for None.
SearchPassage(query, data) ==
  LET ws == FindAll(Lower(query))
  IN  IF ws = <<>> THEN 0 ELSE ScanFrom(data, ws, 1, 0, 0)

ResponseOf(st, ans) == [status |-> st, answer |-> ans]

\* ask() for body b over data: the status and the answer of the response.
Ask(b, data) ==
  IF ParseFails(b)
    THEN ResponseOf(500, <<>>)
    ELSE LET rec == SearchPassage(Strip(RawQuestion(b)), data)
         IN  IF Truthy(data, rec)
               THEN IF HasAllKeys(data[rec])
                      THEN ResponseOf(200, FormatAnswer(data[rec]))
                      ELSE ResponseOf(500, <<>>)
               ELSE ResponseOf(200, Apology)

(***************************************************************************)
(* State                                                                   *)
(***************************************************************************)
VARIABLES
  file,          \* data.json: whether it exists, and the list it holds
  loaded,        \* the module's top-level code has run
  DATA,          \* the global DATA
  pc,            \* per request: "idle", "scan", "ret" or "done"
  body,          \* per request: the request body
  question,      \* ask: question
  words,         \* search_passage: words
  idx,           \* search_passage: number of records the for loop has taken
  score,         \* search_passage: score
  best_score,    \* search_passage: best_score
  best_record,   \* search_passage: best_record, a position in DATA or 0 (None)
  record,        \* ask: record, a position in DATA or 0 (None)
  status,        \* per request: HTTP status of the response, 0 before it
  answer         \* per request: the "answer" of the JSON response

globals == <<file, loaded, DATA>>
locals == <<question, words, idx, score, best_score, best_record, record>>
response == <<status, answer>>
vars == <<file, loaded, DATA, pc, body, question, words, idx, score, best_score,
          best_record, record, status, answer>>

NoBody == BodyOf("absent", 0, "absent", <<>>)

InitRequests ==
  /\ pc = [r \in Requests |-> "idle"]
  /\ body = [r \in Requests |-> NoBody]
  /\ question = [r \in Requests |-> <<>>]
  /\ words = [r \in Requests |-> <<>>]
  /\ idx = [r \in Requests |-> 0]
  /\ score = [r \in Requests |-> 0]
  /\ best_score = [r \in Requests |-> 0]
  /\ best_record = [r \in Requests |-> 0]
  /\ record = [r \in Requests |-> 0]
  /\ status = [r \in Requests |-> 0]
  /\ answer = [r \in Requests |-> <<>>]

Init ==
  /\ file \in Files
  /\ loaded = FALSE
  /\ DATA = <<>>
  /\ InitRequests

InitConc ==
  /\ file \in ConcFiles
  /\ loaded = FALSE
  /\ DATA = <<>>
  /\ InitRequests

(***************************************************************************)
(* Operations                                                              *)
(***************************************************************************)
\* Module level: the dataset is read once, before any request is served.
Load ==
  /\ ~loaded
  /\ loaded' = TRUE
  /\ DATA' = LoadData(file)
  /\ UNCHANGED <<file, pc, body, locals, response>>

\* ask, lines 85-87, and search_passage up to the loop: parse the body, strip
\* the question, tokenize it, return None without words.
AskBegin(r, b) ==
  /\ loaded
  /\ pc[r] = "idle"
  /\ body' = [body EXCEPT ![r] = b]
  /\ IF ParseFails(b)
       THEN /\ pc' = [pc EXCEPT ![r] = "done"]
            /\ status' = [status EXCEPT ![r] = 500]
            /\ UNCHANGED <<locals, answer>>
       ELSE LET q == Strip(RawQuestion(b))
                w == FindAll(Lower(q))
            IN  /\ question' = [question EXCEPT ![r] = q]
                /\ words' = [words EXCEPT ![r] = w]
                /\ pc' = [pc EXCEPT ![r] = IF w = <<>> THEN "ret" ELSE "scan"]
                /\ best_record' = [best_record EXCEPT ![r] = 0]
                /\ best_score' = [best_score EXCEPT ![r] = 0]
                /\ idx' = [idx EXCEPT ![r] = 0]
                /\ record' = [record EXCEPT ![r] = 0]
                /\ UNCHANGED <<score, response>>
  /\ UNCHANGED globals

\* One iteration of the loop whose holder lives in a variable all requests share.
ScanStepSharedHolder(r) ==
  /\ pc[r] = "scan"
  /\ idx[r] < Len(DATA)
  /\ LET i == idx[r] + 1
         s == Score(DATA[i], words[r])
     IN  /\ idx' = [idx EXCEPT ![r] = i]
         /\ score' = [score EXCEPT ![r] = s]
         /\ IF Replaces(s, best_score[r])
              THEN /\ best_score' = [o \in Requests |-> s]
                   /\ best_record' = [o \in Requests |-> i]
              ELSE UNCHANGED <<best_score, best_record>>
  /\ UNCHANGED <<globals, pc, body, question, words, record, response>>

\* search_passage, lines 61-66: one iteration of `for rec in DATA`.
ScanStep(r) ==
  /\ pc[r] = "scan"
  /\ idx[r] < Len(DATA)
  /\ LET i == idx[r] + 1
         s == Score(DATA[i], words[r])
     IN  /\ idx' = [idx EXCEPT ![r] = i]
         /\ score' = [score EXCEPT ![r] = s]
         /\ IF Replaces(s, best_score[r])
              THEN /\ best_score' = [best_score EXCEPT ![r] = s]
                   /\ best_record' = [best_record EXCEPT ![r] = i]
              ELSE UNCHANGED <<best_score, best_record>>
  /\ UNCHANGED <<globals, pc, body, question, words, record, response>>

\* search_passage, line 67, and ask, line 87: the loop is over.
SearchReturn(r) ==
  /\ pc[r] = "scan"
  /\ idx[r] = Len(DATA)
  /\ record' = [record EXCEPT ![r] = best_record[r]]
  /\ pc' = [pc EXCEPT ![r] = "ret"]
  /\ UNCHANGED <<globals, body, question, words, idx, score, best_score,
                 best_record, response>>

\* ask, lines 88-98: format the record or apologize.
AskRespond(r) ==
  /\ pc[r] = "ret"
  /\ pc' = [pc EXCEPT ![r] = "done"]
  /\ IF Truthy(DATA, record[r])
       THEN IF HasAllKeys(DATA[record[r]])
              THEN /\ answer' = [answer EXCEPT ![r] = FormatAnswer(DATA[record[r]])]
                   /\ status' = [status EXCEPT ![r] = 200]
              ELSE /\ status' = [status EXCEPT ![r] = 500]
                   /\ UNCHANGED answer
       ELSE /\ answer' = [answer EXCEPT ![r] = Apology]
            /\ status' = [status EXCEPT ![r] = 200]
  /\ UNCHANGED <<globals, body, locals>>

\* The response is sent and the request's frame is gone.
Finish(r) ==
  /\ pc[r] = "done"
  /\ pc' = [pc EXCEPT ![r] = "idle"]
  /\ body' = [body EXCEPT ![r] = NoBody]
  /\ question' = [question EXCEPT ![r] = <<>>]
  /\ words' = [words EXCEPT ![r] = <<>>]
  /\ idx' = [idx EXCEPT ![r] = 0]
  /\ score' = [score EXCEPT ![r] = 0]
  /\ best_score' = [best_score EXCEPT ![r] = 0]
  /\ best_record' = [best_record EXCEPT ![r] = 0]
  /\ record' = [record EXCEPT ![r] = 0]
  /\ status' = [status EXCEPT ![r] = 0]
  /\ answer' = [answer EXCEPT ![r] = <<>>]
  /\ UNCHANGED globals

\* No other request is being handled.
Alone(r) == \A o \in Requests \ {r} : pc[o] = "idle"

\* The server handling one request at a time.
Next ==
  \/ Load
  \/ \E r \in Requests : \E b \in Bodies : Alone(r) /\ AskBegin(r, b)
  \/ \E r \in Requests : ScanStep(r)
  \/ \E r \in Requests : SearchReturn(r)
  \/ \E r \in Requests : AskRespond(r)
  \/ \E r \in Requests : Finish(r)

\* The threaded server: requests interleave at every step.
NextConc ==
  \/ Load
  \/ \E r \in Requests : \E b \in ConcBodies : AskBegin(r, b)
  \/ \E r \in Requests : ScanStep(r)
  \/ \E r \in Requests : SearchReturn(r)
  \/ \E r \in Requests : AskRespond(r)
  \/ \E r \in Requests : Finish(r)

Spec == Init /\ [][Next]_vars

SpecConc == InitConc /\ [][NextConc]_vars

(***************************************************************************)
(* Properties                                                              *)
(***************************************************************************)
\* The closing sentence as the documentation spells it.
ClosingSentence ==
  <<"C", "h", "a", "n", "t", " ", "H", "a", "r", "e", " ", "K", "r", "i", "s",
    "h", "n", "a", " ", "a", "n", "d", " ", "b", "e", " ", "h", "a", "p", "p",
    "y", ".">>

\* The apology sentence, followed by a space and the closing sentence.
ExpectedApology ==
  <<"T", "h", "i", "s", " ", "i", "n", "f", "o", "r", "m", "a", "t", "i", "o",
    "n", " ", "i", "s", " ", "n", "o", "t", " ", "a", "v", "a", "i", "l", "a",
    "b", "l", "e", " ", "i", "n", " ", "t", "h", "e", " ", "p", "r", "o", "v",
    "i", "d", "e", "d", " ", "t", "e", "x", "t", "s", ".">>
  \o <<" ">> \o ClosingSentence

\* Translation, blank line, purport, blank line, citation and closing
\* sentence, a field the record lacks rendered as the empty string.
ExpectedAnswer(rec) ==
  Get(rec, "translation") \o <<"\n", "\n">> \o Get(rec, "purport") \o <<"\n", "\n">> \o
  <<"(">> \o Get(rec, "book") \o
  <<",", " ", "C", "h", "a", "p", "t", "e", "r", " ">> \o Get(rec, "chapter") \o
  <<",", " ", "V", "e", "r", "s", "e", " ">> \o Get(rec, "verse") \o
  <<")", " ", EnDash, " ">> \o Get(rec, "author") \o <<".", " ">> \o ClosingSentence

EndsWith(s, suffix) ==
  Len(s) >= Len(suffix) /\ SubSeq(s, Len(s) - Len(suffix) + 1, Len(s)) = suffix

\* The request's question was searched and search_passage has returned.
SearchReturned(r) == pc[r] \in {"ret", "done"} /\ ~ParseFails(body[r])

\* The request has its response.
Responded(r) == pc[r] = "done"

\* The request's question was searched and the response is there.
SearchedAndResponded(r) == pc[r] = "done" /\ ~ParseFails(body[r])

NoWordChar(s) == \A i \in 1..Len(s) : ~IsWordChar(s[i])

ScoresOf(ws) == [i \in 1..Len(DATA) |-> Score(DATA[i], ws)]

\* The positions at which word occurs in text.
Occurrences(text, word) ==
  {i \in 1..(Len(text) - Len(word) + 1) : SubSeq(text, i, i + Len(word) - 1) = word}

\* The largest number of occurrences of word in text no two of which overlap.
MaxDisjointOccurrences(text, word) ==
  LET disjoint == {S \in SUBSET Occurrences(text, word) :
                     \A i, j \in S : i < j => j - i >= Len(word)}
  IN  CHOOSE n \in 0..Len(text) :
        /\ \E S \in disjoint : Cardinality(S) = n
        /\ \A S \in disjoint : Cardinality(S) <= n

RECURSIVE OccurrenceSum(_, _, _)
OccurrenceSum(text, ws, n) ==
  IF n = 0 THEN 0
  ELSE OccurrenceSum(text, ws, n - 1) + MaxDisjointOccurrences(text, ws[n])

\* How many times token t is in the token sequence ws.
Multiplicity(ws, t) == Cardinality({i \in 1..Len(ws) : ws[i] = t})

\* ws2 is ws1 with every token repeated k times, in any order.
IsRepetition(ws2, ws1, k) ==
  /\ ws1 # <<>>
  /\ Len(ws2) = k * Len(ws1)
  /\ \A i \in 1..Len(ws2) : Multiplicity(ws2, ws2[i]) = k * Multiplicity(ws1, ws2[i])

\* The record with translation and purport exchanged.
Swapped(rec) ==
  [f \in ((DOMAIN rec) \ {"translation", "purport"})
           \cup (IF "purport" \in DOMAIN rec THEN {"translation"} ELSE {})
           \cup (IF "translation" \in DOMAIN rec THEN {"purport"} ELSE {}) |->
     CASE f = "translation" -> rec["purport"]
       [] f = "purport" -> rec["translation"]
       [] OTHER -> rec[f]]

\* C1: for a query with a token and a dataset in which some record scores
\* above 0, search_passage returns a record of maximal score, and every
\* record before it in the dataset scores strictly less.
BestMatchIsFirstMaximum ==
  \A r \in Requests :
    LET sc == ScoresOf(words[r])
    IN  (SearchReturned(r) /\ words[r] # <<>> /\ (\E i \in 1..Len(DATA) : sc[i] > 0))
          => /\ record[r] \in 1..Len(DATA)
             /\ \A j \in 1..Len(DATA) : sc[j] <= sc[record[r]]
             /\ \A j \in 1..(record[r] - 1) : sc[j] < sc[record[r]]

\* Two records tie at the maximum and the first of them was returned.
TieKeptFirst ==
  \E r \in Requests :
    /\ SearchReturned(r) /\ Len(DATA) = 2 /\ record[r] = 1
    /\ ScoresOf(words[r])[1] = ScoresOf(words[r])[2] /\ ScoresOf(words[r])[1] > 0
    /\ DATA[1] # DATA[2]

\* C2: a question without word characters, or one for which no record
\* scores above 0, makes search_passage return None and the answer is the
\* apology sentence followed by the closing sentence.
NoMatchApologizes ==
  \A r \in Requests :
    (SearchReturned(r)
      /\ (\/ NoWordChar(RawQuestion(body[r]))
          \/ \A i \in 1..Len(DATA) : Score(DATA[i], words[r]) = 0))
      => /\ record[r] = 0
         /\ Responded(r) => (status[r] = 200 /\ answer[r] = ExpectedApology)

\* A punctuation-only question was answered with the apology over a
\* dataset in which a record holds that punctuation.
PunctuationOnlyApologized ==
  \E r \in Requests :
    /\ Responded(r) /\ answer[r] = ExpectedApology
    /\ RawQuestion(body[r]) = <<"?">>
    /\ \E i \in 1..Len(DATA) : Count(ComparisonText(DATA[i]), <<"?">>) > 0

MatchedAnswerIsFormatted ==
  \A r \in Requests :
    (SearchedAndResponded(r) /\ record[r] # 0)
      => /\ status[r] = 200
         /\ answer[r] = ExpectedAnswer(DATA[record[r]])
         /\ EndsWith(answer[r], ClosingSentence)

\* C5: a matched record that lacks fields is still answered, each absent
\* field rendered as the empty string.
AbsentFieldsRenderEmpty ==
  \A r \in Requests :
    (SearchedAndResponded(r) /\ record[r] # 0 /\ ~(Fields \subseteq DOMAIN DATA[record[r]]))
      => /\ status[r] = 200
         /\ answer[r] = ExpectedAnswer(DATA[record[r]])

\* C6: whatever the body, a request that matched no record gets a normal
\* response with an answer, the apology when the body is missing or is not
\* JSON.
BodyNeverRejected ==
  \A r \in Requests :
    (Responded(r) /\ record[r] = 0)
      => /\ status[r] = 200
         /\ answer[r] # <<>>
         /\ IsNoJson(body[r]) => answer[r] = ExpectedApology

\* C7: without a dataset file the loaded dataset is empty, and every
\* question asked gets the apology.
MissingFileApologizes ==
  ~file.exists =>
    /\ loaded => DATA = <<>>
    /\ \A r \in Requests :
         SearchedAndResponded(r) => (status[r] = 200 /\ answer[r] = ExpectedApology)

\* Without a dataset file a question with a word was answered.
MissingFileQuestionAnswered ==
  \E r \in Requests :
    /\ ~file.exists /\ loaded /\ Responded(r)
    /\ words[r] # <<>> /\ answer[r] = ExpectedApology

\* C8: once loaded the dataset never changes, and the response of every
\* request is the response its body gets when handled alone over the loaded
\* dataset, whatever other requests are in progress.
RequestsAreIsolated ==
  /\ [](\A r \in Requests :
          Responded(r) =>
            ResponseOf(status[r], answer[r]) = Ask(body[r], LoadData(file)))
  /\ [][loaded => DATA' = DATA]_vars

\* A request got a record while another request, on another question, was
\* in the middle of its scan.
AnsweredDuringOtherScan ==
  \E r1, r2 \in Requests :
    /\ r1 # r2 /\ Responded(r1) /\ record[r1] # 0 /\ status[r1] = 200
    /\ pc[r2] = "scan" /\ idx[r2] >= 1 /\ words[r2] # words[r1]
    /\ best_record[r2] # record[r1]

\* C9: the score of a record is the occurrences counted in its lowercased
\* translation plus those counted in its lowercased purport, and a record
\* scanned right after the record it is the swap of gets the same score.
ScoreIsSymmetricInFields ==
  /\ [](\A r \in Requests :
          idx[r] >= 1 =>
            score[r] =
              SumCounts(Lower(Get(DATA[idx[r]], "translation")), words[r])
              + SumCounts(Lower(Get(DATA[idx[r]], "purport")), words[r]))
  /\ [][\A r \in Requests :
          (idx[r] >= 1 /\ idx'[r] = idx[r] + 1 /\ DATA[idx'[r]] = Swapped(DATA[idx[r]]))
            => score'[r] = score[r]]_vars

\* A record and its swap, different records, were scored one after the
\* other for a query they contain.
SwappedRecordScored ==
  \E r \in Requests :
    /\ idx[r] = 2 /\ DATA[2] = Swapped(DATA[1]) /\ DATA[2] # DATA[1]
    /\ score[r] > 0

\* C10: a record search_passage returns is a dict with a key, hence true in
\* `if record`; the answer is the apology exactly when search_passage
\* returned None.
BranchAgreesWithMatcher ==
  \A r \in Requests :
    /\ (SearchReturned(r) /\ record[r] # 0) => DOMAIN DATA[record[r]] # {}
    /\ SearchedAndResponded(r) =>
         ((status[r] = 200 /\ answer[r] = ExpectedApology) <=> record[r] = 0)

\* A record was returned from a dataset that also holds a record without
\* keys, and it was not answered with the apology.
RecordReturnedBesideEmptyRecord ==
  \E r \in Requests :
    /\ SearchedAndResponded(r) /\ record[r] # 0 /\ status[r] = 200
    /\ answer[r] # ExpectedApology
    /\ \E i \in 1..Len(DATA) : DOMAIN DATA[i] = {}

====
